---- MODULE Spec2Model ----
(***************************************************************************)
(* Worker orchestration of the membership-token indexer's data loader:     *)
(* the dispatcher (workers/dispatcher.rs), the signatures loader           *)
(* (workers/signatures_loader.rs) and the pool of transactions loaders     *)
(* (workers/transactions_loader.rs).                                       *)
(*                                                                         *)
(* Every tokio task is a process with a program counter.  A step is the    *)
(* code between two operations on state another task (or a later run) can  *)
(* see: a channel, the storage, the checkpoint file, the shutdown-barrier  *)
(* sender handles.                                                         *)
(*                                                                         *)
(* indexer_core (SolanaRpcClient, Storage, Db, TRANSACTIONS_BATCH_LEN) is  *)
(* not part of these sources; the operators that stand for it follow the   *)
(* interfaces of the specification and are marked as such in the map.      *)
(***************************************************************************)
EXTENDS Integers, Sequences, FiniteSets, TLC

\* ------------------------------------------------------------- bounds
\* Largest pool size (number_of_transaction_loaders) of a whole-program run.
MaxLoaders == 1
\* Number of process runs (start .. shutdown) a behaviour may contain.
MaxRuns == 2
\* Signatures on the chain during whole-program runs.
RunTip == 1
\* Signatures on the chain when the discovery tick is examined alone.
MaxTip == 8
\* Signatures on the chain when the program is run again and again.
RerunTip == 5
\* Page size of load_signatures_batch; stands for TRANSACTIONS_BATCH_LEN,
\* whose value is set in indexer_core.
BatchLen == 4
\* Pool size, queue length and commands per instance of the pool harness.
PoolSize == 2
MaxQueue == 1
MaxCmds == 2
\* Largest pool size when the start-up of the pool is examined alone: one
\* more instance than the command channel has slots.
LagPool == 33

\* ------------------------------------------------------------- constants
\* broadcast::channel::<..>(32): capacity of the command channels.
CmdCapacity == 32

\* Option::None for a signature; signatures are 1, 2, ... in chain order
\* (a larger number is a newer transaction).
None == 0

VARIABLES
    \* configuration and environment
    number_of_transaction_loaders, \* config.get_workers_pool_config()
    ext_stop,        \* a message waits in the dispatcher's stop_rx
    tip,             \* newest signature on the chain (None: empty history)
    run_no,          \* ordinal of the current process run
    \* dispatcher
    dpc,             \* position of dispatcher::run
    channel_id,      \* loop variable of setup_and_start_transactions_loaders
    stop_subs,       \* receivers subscribed to the stop broadcast channel
    stop_pending,    \* receivers holding an unread stop message
    fb_senders,      \* live sender handles of the shutdown-barrier channel
    sgn_cmd,         \* dispatcher_sgnloader_rx: buffered commands
    tl_cmd,          \* per transactions loader: its command receiver
    sgn_msgs,        \* sgnloader_dispatcher_rx: buffered messages
    tl_msgs,         \* trnsloader_dispatcher_rx: buffered messages
    \* signatures loader
    spc,             \* position of signatures_loader::run
    sgn_registry,    \* SignaturesLoaderRegistry
    saved_state,     \* SavedState held in memory
    file_exists,     \* ./stored_state.dat exists
    file_content,    \* its text, as a sequence of JSON tokens
    \* transactions loaders
    tpc,             \* position of transactions_loader::run, per instance
    tl_registry,     \* TransactionsLoaderRegistry, per instance
    tl_local,        \* record_id / signature locals of the tick, per instance
    lock,            \* holder of guarded_storage's mutex (or NoHolder)
    \* storage
    queue,           \* signatures queue: entries in record_id order
    stored,          \* signatures whose transaction body is stored
    \* history (observation only, never read by the program)
    hist             \* counters and values recorded for the properties

vars == << number_of_transaction_loaders, ext_stop, tip, run_no, dpc,
           channel_id, stop_subs, stop_pending, fb_senders, sgn_cmd, tl_cmd,
           sgn_msgs, tl_msgs, spc, sgn_registry, saved_state, file_exists,
           file_content, tpc, tl_registry, tl_local, lock, queue, stored,
           hist >>

\* ------------------------------------------------------------- names
NoHolder == 0 - 1
\* The instances whose tasks are followed.  The start-up of a large pool is
\* configured with more instances than these; the further ones are there
\* as holders of a barrier sender and as addressees of a Start command.
Largest == IF MaxLoaders > PoolSize THEN MaxLoaders ELSE PoolSize
Loaders == 0 .. Largest - 1
Followed(f, k, value) == IF k \in DOMAIN f THEN [ f EXCEPT ![k] = value ] ELSE f
Spawned == { k \in Loaders : tpc[k] # "none" }
\* The instances of this run: for channel_id in 0..number_of_transaction_loaders.
Pool == 0 .. number_of_transaction_loaders - 1

\* Holders of a shutdown-barrier sender handle.
RunHandle == << "run", 0 >>            \* stop_fb_tx of dispatcher::run
HelperHandle == << "setup", 0 >>       \* stop_fb_tx of the pool setup helper
SgnHandle == << "sgn", 0 >>            \* _stop_fb_tx of signatures_loader::run
TlHandle(k) == << "tl", k >>           \* _stop_fb_tx of transactions_loader::run

\* Receivers of the stop broadcast channel.
SgnRx == << "sgn", 0 >>
TlRx(k) == << "tl", k >>

\* ------------------------------------------------------------- channels
\* A tokio broadcast receiver: the values sent since it subscribed and not
\* yet received.  When CmdCapacity values are waiting, a further send
\* overwrites the oldest one and the receiver has lagged.
NoReceiver == [ subscribed |-> FALSE, buf |-> << >>, lagged |-> FALSE ]
NewReceiver == [ subscribed |-> TRUE, buf |-> << >>, lagged |-> FALSE ]

Deliver(rx, value) ==
    IF ~rx.subscribed THEN rx
    ELSE IF Len(rx.buf) >= CmdCapacity
         THEN [ rx EXCEPT !.buf = Append(Tail(rx.buf), value), !.lagged = TRUE ]
         ELSE [ rx EXCEPT !.buf = Append(rx.buf, value) ]

\* Receiver::try_recv: Ok(value) only when no lag is pending and a value waits.
TryRecvOk(rx) == rx.subscribed /\ ~rx.lagged /\ rx.buf # << >>
TryRecvValue(rx) == Head(rx.buf)
AfterTryRecv(rx) ==
    IF rx.lagged THEN [ rx EXCEPT !.lagged = FALSE ]
    ELSE IF rx.buf # << >> THEN [ rx EXCEPT !.buf = Tail(rx.buf) ]
    ELSE rx

StartSgn == [ type |-> "Start", channel_id |-> 0 ]
StartTl(k) == [ type |-> "Start", channel_id |-> k ]
StopCmd == [ type |-> "Stop", channel_id |-> 0 ]
LoadCmd == [ type |-> "Load", channel_id |-> 0 ]

\* ------------------------------------------------------------- checkpoint
SigBound ==
    LET m == IF MaxTip > RunTip THEN MaxTip ELSE RunTip
    IN  IF m > RerunTip THEN m ELSE RerunTip
Sigs == 1 .. SigBound
OptSig == { None } \cup Sigs

SavedState == [ newest_transaction : OptSig, before : OptSig, until : OptSig ]
EmptyState == [ newest_transaction |-> None, before |-> None, until |-> None ]

\* The text with the values of before and until exchanged.
ToJson_swapped(state) ==
    << "{", "newest_transaction", IF state.newest_transaction = None
                                  THEN "null" ELSE ToString(state.newest_transaction),
            "before", IF state.until = None THEN "null" ELSE ToString(state.until),
            "until", IF state.before = None THEN "null" ELSE ToString(state.before),
            "}" >>

\* serde_json::to_string(&SavedState): the object's tokens, the fields in
\* declaration order, an absent signature as null.
EncodeSig(sig) == IF sig = None THEN "null" ELSE ToString(sig)
ToJson(state) ==
    << "{", "newest_transaction", EncodeSig(state.newest_transaction),
            "before", EncodeSig(state.before),
            "until", EncodeSig(state.until), "}" >>

\* serde_json::from_str::<SavedState>: an object of known, distinct keys
\* with a signature or null each; a key that is absent reads as None.
FieldNames == { "newest_transaction", "before", "until" }
IsSigToken(tok) == tok = "null" \/ \E sig \in Sigs : ToString(sig) = tok
DecodeSig(tok) ==
    IF tok = "null" THEN None ELSE CHOOSE sig \in Sigs : ToString(sig) = tok
Pairs(text) == 1 .. ((Len(text) - 2) \div 2)
FromJsonOk(text) ==
    /\ Len(text) >= 2
    /\ (Len(text) - 2) % 2 = 0
    /\ text[1] = "{"
    /\ text[Len(text)] = "}"
    /\ \A i \in Pairs(text) : text[2 * i] \in FieldNames /\ IsSigToken(text[2 * i + 1])
    /\ \A i, j \in Pairs(text) : text[2 * i] = text[2 * j] => i = j
JsonField(text, name) ==
    IF \E i \in Pairs(text) : text[2 * i] = name
    THEN DecodeSig(text[2 * (CHOOSE i \in Pairs(text) : text[2 * i] = name) + 1])
    ELSE None
FromJson(text) ==
    [ newest_transaction |-> JsonField(text, "newest_transaction"),
      before |-> JsonField(text, "before"),
      until |-> JsonField(text, "until") ]

\* load_state: a file that cannot be read gives the empty checkpoint; a file
\* that is read is parsed, and the unwrap panics when it does not parse.
LoadPanics(exists, text) == exists /\ ~FromJsonOk(text)
load_state(exists, text) == IF exists THEN FromJson(text) ELSE EmptyState

\* ------------------------------------------------------------- RPC
\* load_signatures_batch(before, until): the signatures older than `before`
\* and newer than `until`, newest first, at most BatchLen of them.
PageTop(before) == IF before = None \/ before > tip THEN tip ELSE before - 1
PageLen(before, until) ==
    LET n == PageTop(before) - until
    IN  IF n <= 0 THEN 0 ELSE IF n > BatchLen THEN BatchLen ELSE n
load_signatures_batch(before, until) ==
    [ i \in 1 .. PageLen(before, until) |-> PageTop(before) - i + 1 ]

\* newest_transaction taken from the last signature of the page.
WithNewest_oldest(state, signatures) ==
    IF state.newest_transaction = None /\ signatures # << >>
    THEN [ state EXCEPT !.newest_transaction = signatures[Len(signatures)] ]
    ELSE state

\* A short page seals until and clears before but keeps newest_transaction.
Seal_keeps_newest(state) ==
    [ newest_transaction |-> state.newest_transaction,
      before |-> None,
      until |-> IF state.newest_transaction # None
                THEN state.newest_transaction ELSE state.until ]

\* A short page seals until but leaves before as it is.
Seal_keeps_before(state) ==
    [ newest_transaction |-> None,
      before |-> state.before,
      until |-> IF state.newest_transaction # None
                THEN state.newest_transaction ELSE state.until ]

\* newest_transaction follows the first signature of every non-empty page.
WithNewest_always(state, signatures) ==
    IF signatures # << >>
    THEN [ state EXCEPT !.newest_transaction = signatures[1] ]
    ELSE state

\* One tick's cursor update (signatures_loader::run, after the page arrived).
WithNewest(state, signatures) ==
    IF state.newest_transaction = None /\ signatures # << >>
    THEN [ state EXCEPT !.newest_transaction = signatures[1] ]
    ELSE state
Seal(state) ==
    [ newest_transaction |-> None,
      before |-> None,
      until |-> IF state.newest_transaction # None
                THEN state.newest_transaction ELSE state.until ]
\* before moved to the first, newest signature of the page.
Advance_first(state, signatures) ==
    [ state EXCEPT !.before = signatures[1] ]

\* else branch (lines 122-125): before = the last signature of the page.
Advance(state, signatures) ==
    [ state EXCEPT !.before = signatures[Len(signatures)] ]
UpdateCursors(state, signatures) ==
    LET anchored == WithNewest(state, signatures)
    IN  IF Len(signatures) < BatchLen THEN Seal(anchored)
        ELSE Advance(anchored, signatures)

\* store_signatures_in_queue: one new entry per signature, in page order.
NewEntry(sig) == [ signature |-> sig, dequeued |-> FALSE, loaded |-> FALSE, handed |-> 0 ]
Enqueue(q, signatures) == q \o [ i \in 1 .. Len(signatures) |-> NewEntry(signatures[i]) ]

\* ------------------------------------------------------------- start of a run
NotStartedRegistry == [ state |-> "NotStarted", rpc_client |-> FALSE, db |-> FALSE ]
NoLocal == [ record_id |-> None, signature |-> None ]
NoSave == [ ok |-> FALSE, state |-> EmptyState ]

\* What one process run starts from: dispatcher::run has created the stop and
\* shutdown-barrier channels (lines 23-28) and no task is spawned yet.
FreshProcess ==
    /\ ext_stop = FALSE
    /\ dpc = "setup_sgn"
    /\ channel_id = 0
    /\ stop_subs = { }
    /\ stop_pending = { }
    /\ fb_senders = { RunHandle }
    /\ sgn_cmd = NewReceiver
    /\ tl_cmd = [ k \in Loaders |-> NoReceiver ]
    /\ sgn_msgs = << >>
    /\ tl_msgs = << >>
    /\ spc = "none"
    /\ sgn_registry = NotStartedRegistry
    /\ saved_state = EmptyState
    /\ tpc = [ k \in Loaders |-> "none" ]
    /\ tl_registry = [ k \in Loaders |-> NotStartedRegistry ]
    /\ tl_local = [ k \in Loaders |-> NoLocal ]
    /\ lock = NoHolder

FreshHistory ==
    [ new_client |-> 0,                        \* SolanaRpcClient built by the signatures loader
      tl_new_client |-> [ k \in Loaders |-> 0 ], \* ... by each transactions loader
      starts |-> [ k \in Loaders |-> 0 ],      \* Start commands an instance honoured
      replies |-> [ k \in Loaders |-> << >> ], \* messages an instance sent, in order
      sgn_starts |-> 0,
      sgn_replies |-> << >>,
      save_calls |-> 0,                        \* save_state calls of this run
      saved |-> NoSave,                        \* the checkpoint this run wrote
      prev_saved |-> NoSave,                   \* the checkpoint the run before wrote
      loaded |-> NoSave,                       \* what load_state returned in this run
      load_met |-> "none",                     \* the file load_state met: missing, corrupt, valid
      exit |-> "none",                         \* how the signatures loader left its loop
      pages |-> << >>,                         \* the first pages received in this run
      fetch_failed |-> { },                    \* record_id of the entries whose fetch failed
      failed_page |-> << >>,                   \* the page whose enqueue failed in this run
      prev_failed |-> << >>,                   \* ... in the run before
      late_sgn |-> 0,                          \* pages requested with a stop waiting (up to 2) ...
      late |-> [ k \in Loaders |-> 0 ],        \* dequeues begun with one waiting, by a task still running
      sent |-> << >> ]                         \* commands the driver sent, in order

\* A first run on a machine without a checkpoint file and with an empty queue.
Init ==
    /\ number_of_transaction_loaders \in 0 .. MaxLoaders
    /\ tip \in 0 .. RunTip
    /\ run_no = 1
    /\ FreshProcess
    /\ file_exists = FALSE
    /\ file_content = << >>
    /\ queue = << >>
    /\ stored = { }
    /\ hist = FreshHistory

\* ------------------------------------------------------------- task end
\* A task that returns or panics drops what it owns: its shutdown-barrier
\* sender and its stop receiver.
ReleaseStop(rx) ==
    /\ stop_subs' = stop_subs \ { rx }
    /\ stop_pending' = stop_pending \ { rx }

\* ------------------------------------------------------------- dispatcher
\* setup_and_start_signatures_loader, tokio::spawn (lines 71-80): the task
\* owns the clone of stop_fb_tx made at line 32.
DSpawnSgn ==
    /\ dpc = "setup_sgn"
    /\ dpc' = "start_sgn"
    /\ spc' = "spawned"
    /\ fb_senders' = fb_senders \cup { SgnHandle }
    /\ UNCHANGED << number_of_transaction_loaders, ext_stop, tip, run_no,
                    channel_id, stop_subs, stop_pending, sgn_cmd, tl_cmd,
                    sgn_msgs, tl_msgs, sgn_registry, saved_state, file_exists,
                    file_content, tpc, tl_registry, tl_local, lock, queue,
                    stored, hist >>

\* dispatcher_sgnloader_tx.send(Start) (line 86), then the call of
\* setup_and_start_transactions_loaders with a second clone (line 34).
DStartSgn ==
    /\ dpc = "start_sgn"
    /\ sgn_cmd' = Deliver(sgn_cmd, StartSgn)
    /\ fb_senders' = fb_senders \cup { HelperHandle }
    /\ channel_id' = 0
    /\ dpc' = "setup_pool"
    /\ UNCHANGED << number_of_transaction_loaders, ext_stop, tip, run_no,
                    stop_subs, stop_pending, tl_cmd, sgn_msgs, tl_msgs, spc,
                    sgn_registry, saved_state, file_exists, file_content, tpc,
                    tl_registry, tl_local, lock, queue, stored, hist >>

\* The task is spawned without a sender of its own.
TaskSenders_none(k) == { }

\* let stp_fb_tx = stop_fb_tx.clone() (line 119), moved into the task (line 125).
TaskSenders(k) == { TlHandle(k) }

\* Loop body up to the spawn (lines 115-131): subscribe the instance's
\* command receiver, clone the barrier sender, spawn the task.
DSpawnTl ==
    /\ dpc = "setup_pool"
    /\ channel_id < number_of_transaction_loaders
    /\ tl_cmd' = Followed(tl_cmd, channel_id, NewReceiver)
    /\ fb_senders' = fb_senders \cup TaskSenders(channel_id)
    /\ tpc' = Followed(tpc, channel_id, "spawned")
    /\ dpc' = "start_tl"
    /\ UNCHANGED << number_of_transaction_loaders, ext_stop, tip, run_no,
                    channel_id, stop_subs, stop_pending, sgn_cmd, sgn_msgs,
                    tl_msgs, spc, sgn_registry, saved_state, file_exists,
                    file_content, tl_registry, tl_local, lock, queue, stored,
                    hist >>

\* dispatcher_trnsloader_tx.send(Start { channel_id }) (line 138): every
\* receiver subscribed so far gets the command.
DStartTl ==
    /\ dpc = "start_tl"
    /\ tl_cmd' = [ k \in Loaders |-> Deliver(tl_cmd[k], StartTl(channel_id)) ]
    /\ channel_id' = channel_id + 1
    /\ dpc' = "setup_pool"
    /\ UNCHANGED << number_of_transaction_loaders, ext_stop, tip, run_no,
                    stop_subs, stop_pending, fb_senders, sgn_cmd, sgn_msgs,
                    tl_msgs, spc, sgn_registry, saved_state, file_exists,
                    file_content, tpc, tl_registry, tl_local, lock, queue,
                    stored, hist >>

\* End of the helper's loop: drop(stop_fb_tx) (line 141).
DReturnPool ==
    /\ dpc = "setup_pool"
    /\ channel_id >= number_of_transaction_loaders
    /\ fb_senders' = fb_senders \ { HelperHandle }
    /\ dpc' = "drop_fb"
    /\ UNCHANGED << number_of_transaction_loaders, ext_stop, tip, run_no,
                    channel_id, stop_subs, stop_pending, sgn_cmd, tl_cmd,
                    sgn_msgs, tl_msgs, spc, sgn_registry, saved_state,
                    file_exists, file_content, tpc, tl_registry, tl_local,
                    lock, queue, stored, hist >>

\* drop(stop_fb_tx) of dispatcher::run (line 37).
RunDrops_kept == { }
RunDrops == { RunHandle }
DDropFb ==
    /\ dpc = "drop_fb"
    /\ fb_senders' = fb_senders \ RunDrops
    /\ dpc' = "loop"
    /\ UNCHANGED << number_of_transaction_loaders, ext_stop, tip, run_no,
                    channel_id, stop_subs, stop_pending, sgn_cmd, tl_cmd,
                    sgn_msgs, tl_msgs, spc, sgn_registry, saved_state,
                    file_exists, file_content, tpc, tl_registry, tl_local,
                    lock, queue, stored, hist >>

\* One round of the dispatcher's loop (lines 39-48): take at most one message
\* from each connection, sleep, leave the loop when a stop request waits.
DLoop ==
    /\ dpc = "loop"
    /\ sgn_msgs' = IF sgn_msgs = << >> THEN sgn_msgs ELSE Tail(sgn_msgs)
    /\ tl_msgs' = IF tl_msgs = << >> THEN tl_msgs ELSE Tail(tl_msgs)
    /\ IF ext_stop
       THEN ext_stop' = FALSE /\ dpc' = "send_stop"
       ELSE UNCHANGED << ext_stop, dpc >>
    /\ UNCHANGED << number_of_transaction_loaders, tip, run_no, channel_id,
                    stop_subs, stop_pending, fb_senders, sgn_cmd, tl_cmd, spc,
                    sgn_registry, saved_state, file_exists, file_content, tpc,
                    tl_registry, tl_local, lock, queue, stored, hist >>

\* stop_tx.send(0) (line 50): the receivers subscribed now get the value.
StopReceivers == stop_subs
DSendStop ==
    /\ dpc = "send_stop"
    /\ stop_pending' = stop_pending \cup StopReceivers
    /\ dpc' = "wait"
    /\ UNCHANGED << number_of_transaction_loaders, ext_stop, tip, run_no,
                    channel_id, stop_subs, fb_senders, sgn_cmd, tl_cmd,
                    sgn_msgs, tl_msgs, spc, sgn_registry, saved_state,
                    file_exists, file_content, tpc, tl_registry, tl_local,
                    lock, queue, stored, hist >>

\* stop_fb_rx.recv().await (line 53): nothing is ever sent, so the call
\* returns, with None, when no sender handle is left.
BarrierOpen == fb_senders = { }
DWait ==
    /\ dpc = "wait"
    /\ BarrierOpen
    /\ dpc' = "done"
    /\ UNCHANGED << number_of_transaction_loaders, ext_stop, tip, run_no,
                    channel_id, stop_subs, stop_pending, fb_senders, sgn_cmd,
                    tl_cmd, sgn_msgs, tl_msgs, spc, sgn_registry, saved_state,
                    file_exists, file_content, tpc, tl_registry, tl_local,
                    lock, queue, stored, hist >>

\* ------------------------------------------------------------- variable groups
cfgVars == << number_of_transaction_loaders, run_no >>
dispVars == << dpc, channel_id, sgn_msgs, tl_msgs, ext_stop >>
stopVars == << stop_subs, stop_pending >>
fileVars == << file_exists, file_content >>
sgnVars == << spc, sgn_registry, saved_state, sgn_cmd >>
tlVars == << tpc, tl_registry, tl_local, tl_cmd, lock >>
storeVars == << queue, stored >>

\* ------------------------------------------------------------- signatures loader
\* First poll of the spawned task: stop_tx.subscribe() (dispatcher.rs line 74)
\* is evaluated here, inside the async block, not at tokio::spawn.
SlSubscribe ==
    /\ spc = "spawned"
    /\ stop_subs' = stop_subs \cup { SgnRx }
    /\ spc' = "load"
    /\ UNCHANGED << cfgVars, dispVars, stop_pending, fb_senders, fileVars,
                    sgn_registry, saved_state, sgn_cmd, tlVars, storeVars,
                    tip, hist >>

\* History: what the checkpoint file is when load_state reads it.
FileKind ==
    IF ~file_exists THEN "missing"
    ELSE IF FromJsonOk(file_content) THEN "valid" ELSE "corrupt"

\* let mut saved_state = load_state().await (line 82).
SlLoad ==
    /\ spc = "load"
    /\ IF LoadPanics(file_exists, file_content)
       THEN /\ spc' = "panicked"
            /\ fb_senders' = fb_senders \ { SgnHandle }
            /\ ReleaseStop(SgnRx)
            /\ hist' = [ hist EXCEPT !.load_met = FileKind ]
            /\ UNCHANGED saved_state
       ELSE /\ spc' = "loop_cmd"
            /\ saved_state' = load_state(file_exists, file_content)
            /\ hist' = [ hist EXCEPT
                           !.load_met = FileKind,
                           !.loaded = [ ok |-> TRUE,
                                        state |-> load_state(file_exists, file_content) ] ]
            /\ UNCHANGED << fb_senders, stopVars >>
    /\ UNCHANGED << cfgVars, dispVars, fileVars, sgn_registry, sgn_cmd,
                    tlVars, storeVars, tip >>

\* start without the test of the state: every Start builds and reports Started.
sgn_start_again(registry) ==
    [ registry |-> [ state |-> "Started", rpc_client |-> TRUE, db |-> TRUE ],
      message |-> "Started", built |-> 1 ]

\* start (lines 156-169): what it leaves in the registry, the message it
\* sends and whether it built the clients.
sgn_start(registry) ==
    IF registry.state = "Started"
    THEN [ registry |-> registry, message |-> "AlreadyStarted", built |-> 0 ]
    ELSE [ registry |-> [ state |-> "Started", rpc_client |-> TRUE, db |-> TRUE ],
           message |-> "Started", built |-> 1 ]

\* process_command (lines 142-154); Stop and Load have empty arms.
SgnHonours(command) == command.type = "Start"

\* if let Ok(command) = rx.try_recv() { process_command(..) } (lines 87-89).
SlCommand ==
    /\ spc = "loop_cmd"
    /\ sgn_cmd' = AfterTryRecv(sgn_cmd)
    /\ IF TryRecvOk(sgn_cmd) /\ SgnHonours(TryRecvValue(sgn_cmd))
       THEN LET r == sgn_start(sgn_registry)
            IN  /\ sgn_registry' = r.registry
                /\ sgn_msgs' = Append(sgn_msgs, r.message)
                /\ hist' = [ hist EXCEPT
                               !.new_client = @ + r.built,
                               !.sgn_starts = @ + 1,
                               !.sgn_replies = Append(@, r.message) ]
       ELSE UNCHANGED << sgn_registry, sgn_msgs, hist >>
    /\ spc' = "loop_stop"
    /\ UNCHANGED << cfgVars, dpc, channel_id, tl_msgs, ext_stop, stopVars,
                    fb_senders, fileVars, saved_state, tlVars, storeVars, tip >>

\* The stop channel is never found to hold a value.
StopSeen_never(rx) == FALSE

\* stop_rx.try_recv().is_ok(): a value sent since the receiver subscribed
\* waits in it.
StopSeen(rx) == rx \in stop_pending

\* History: one more unit of work begun while a stop waits in the receiver;
\* the count of a task that ends goes back to 0 unless it was over 1.
Late(n, rx) == IF rx \in stop_pending /\ n < 2 THEN n + 1 ELSE n
Ended(n) == IF n > 1 THEN n ELSE 0

\* if stop_rx.try_recv().is_ok() { break; } (lines 91-93).
SlCheckStop ==
    /\ spc = "loop_stop"
    /\ IF StopSeen(SgnRx)
       THEN /\ stop_pending' = stop_pending \ { SgnRx }
            /\ spc' = "save"
            /\ hist' = [ hist EXCEPT !.exit = "break", !.late_sgn = Ended(@) ]
       ELSE /\ spc' = "loop_work"
            /\ UNCHANGED << stop_pending, hist >>
    /\ UNCHANGED << cfgVars, dispVars, stop_subs, fb_senders, fileVars,
                    sgn_registry, saved_state, sgn_cmd, tlVars, storeVars, tip >>

\* History: the first two pages of the first run, each with newest_transaction as
\* lines 109-112 left it.
Seen(pages, state, signatures) ==
    IF Len(pages) >= 2 \/ run_no > 1 THEN pages
    ELSE Append(pages, [ page |-> signatures,
                         anchor |-> WithNewest(state, signatures).newest_transaction ])

\* The tick goes on whatever the state of the loader is.
SgnSkips_never(registry) == FALSE

\* if SignaturesLoaderState::Started != registry.state { continue; }
\* (lines 98-100).
SgnSkips(registry) == registry.state # "Started"

\* The error of the enqueue is dropped and the loop goes on.
EnqueueErrorPanics_ignored == FALSE

\* store_signatures_in_queue(&signatures).unwrap() (lines 128-133).
EnqueueErrorPanics == TRUE

\* The rest of the loop body (lines 95-134): nothing when not Started;
\* otherwise one page, the cursor update, then the enqueue, whose unwrap
\* panics when the storage reports an error.
SlTick ==
    /\ spc = "loop_work"
    /\ IF SgnSkips(sgn_registry)
       THEN /\ spc' = "loop_cmd"
            /\ UNCHANGED << saved_state, queue, fb_senders, stopVars, hist >>
       ELSE LET signatures == load_signatures_batch(saved_state.before, saved_state.until)
            IN  /\ saved_state' = UpdateCursors(saved_state, signatures)
                /\ \E enqueue_ok \in BOOLEAN :
                     IF enqueue_ok \/ ~sgn_registry.db
                     THEN /\ queue' = IF sgn_registry.db
                                      THEN Enqueue(queue, signatures) ELSE queue
                          /\ spc' = "loop_cmd"
                          /\ hist' = [ hist EXCEPT
                                         !.late_sgn = Late(@, SgnRx),
                                         !.pages = Seen(@, saved_state, signatures) ]
                          /\ UNCHANGED << fb_senders, stopVars >>
                     ELSE /\ hist' = [ hist EXCEPT
                                         !.late_sgn = IF EnqueueErrorPanics
                                                      THEN Ended(Late(@, SgnRx))
                                                      ELSE Late(@, SgnRx),
                                         !.exit = IF EnqueueErrorPanics THEN "panic" ELSE @,
                                         !.failed_page = signatures,
                                         !.pages = Seen(@, saved_state, signatures) ]
                          /\ UNCHANGED queue
                          /\ IF EnqueueErrorPanics
                             THEN /\ spc' = "panicked"
                                  /\ fb_senders' = fb_senders \ { SgnHandle }
                                  /\ ReleaseStop(SgnRx)
                             ELSE /\ spc' = "loop_cmd"
                                  /\ UNCHANGED << fb_senders, stopVars >>
    /\ UNCHANGED << cfgVars, dispVars, fileVars, sgn_registry, sgn_cmd,
                    tlVars, stored, tip >>

\* save_state(&saved_state).await.unwrap() (line 137, lines 182-188):
\* File::create truncates the file, write puts the JSON text in it; an error
\* of either comes back through `?` and the unwrap panics.
SaveOutcomes == { "ok", "create_err", "write_err" }
SlSave ==
    /\ spc = "save"
    /\ \E outcome \in SaveOutcomes :
         /\ file_exists' = IF outcome = "create_err" THEN file_exists ELSE TRUE
         /\ file_content' = IF outcome = "ok" THEN ToJson(saved_state)
                            ELSE IF outcome = "write_err" THEN << >>
                            ELSE file_content
         /\ IF outcome = "ok"
            THEN /\ spc' = "exit"
                 /\ hist' = [ hist EXCEPT
                                !.save_calls = @ + 1,
                                !.saved = [ ok |-> TRUE, state |-> saved_state ] ]
                 /\ UNCHANGED << fb_senders, stopVars >>
            ELSE /\ spc' = "panicked"
                 /\ fb_senders' = fb_senders \ { SgnHandle }
                 /\ ReleaseStop(SgnRx)
                 /\ hist' = [ hist EXCEPT !.save_calls = @ + 1 ]
    /\ UNCHANGED << cfgVars, dispVars, sgn_registry, saved_state, sgn_cmd,
                    tlVars, storeVars, tip >>

\* run returns (line 140): its parameters, _stop_fb_tx among them, are dropped.
SgnDrops == { SgnHandle }
SlExit ==
    /\ spc = "exit"
    /\ spc' = "done"
    /\ fb_senders' = fb_senders \ SgnDrops
    /\ ReleaseStop(SgnRx)
    /\ UNCHANGED << cfgVars, dispVars, fileVars, sgn_registry, saved_state,
                    sgn_cmd, tlVars, storeVars, tip, hist >>

\* ------------------------------------------------------------- storage queue
\* get_signature_from_queue, as the storage interface describes it: the
\* oldest entry not yet dequeued is read, then marked dequeued.  The two
\* storage operations are separate; the caller's lock makes them one.
FirstPending(q) ==
    IF \E i \in 1 .. Len(q) : ~q[i].dequeued
    THEN CHOOSE i \in 1 .. Len(q) :
            /\ ~q[i].dequeued
            /\ \A j \in 1 .. (i - 1) : q[j].dequeued
    ELSE None
\* The entry is counted as handed out but stays pending.
MarkDequeued_pending(q, record_id) ==
    [ q EXCEPT ![record_id].handed = @ + 1 ]
MarkDequeued(q, record_id) ==
    [ q EXCEPT ![record_id].dequeued = TRUE, ![record_id].handed = @ + 1 ]
\* mark_signature_as_loaded(record_id)
MarkLoaded(q, record_id) == [ q EXCEPT ![record_id].loaded = TRUE ]

\* ------------------------------------------------------------- transactions loader
TlDone(k) ==
    /\ fb_senders' = fb_senders \ { TlHandle(k) }
    /\ ReleaseStop(TlRx(k))
    /\ tl_cmd' = [ tl_cmd EXCEPT ![k] = NoReceiver ]

\* First poll of the spawned task: stp_tx.subscribe() (dispatcher.rs line 124).
TlSubscribe(k) ==
    /\ tpc[k] = "spawned"
    /\ stop_subs' = stop_subs \cup { TlRx(k) }
    /\ tpc' = [ tpc EXCEPT ![k] = "loop_cmd" ]
    /\ UNCHANGED << cfgVars, dispVars, stop_pending, fb_senders, fileVars,
                    sgnVars, tl_registry, tl_local, tl_cmd, lock, storeVars,
                    tip, hist >>

\* start (lines 141-152).
tl_start(registry) ==
    IF registry.state = "Started"
    THEN [ registry |-> registry, message |-> "AlreadyStarted", built |-> 0 ]
    ELSE [ registry |-> [ state |-> "Started", rpc_client |-> TRUE, db |-> TRUE ],
           message |-> "Started", built |-> 1 ]

\* Every Start is honoured, whatever its channel_id.
TlHonours_any(k, command) == command.type = "Start"

\* process_command (lines 126-139): Start is honoured when its channel_id is
\* the instance's own; Stop has an empty arm.
TlHonours(k, command) == command.type = "Start" /\ command.channel_id = k

\* if let Ok(command) = rx.try_recv() { process_command(..) } (lines 64-66).
TlCommand(k) ==
    /\ tpc[k] = "loop_cmd"
    /\ tl_cmd' = [ tl_cmd EXCEPT ![k] = AfterTryRecv(tl_cmd[k]) ]
    /\ IF TryRecvOk(tl_cmd[k]) /\ TlHonours(k, TryRecvValue(tl_cmd[k]))
       THEN LET r == tl_start(tl_registry[k])
            IN  /\ tl_registry' = [ tl_registry EXCEPT ![k] = r.registry ]
                /\ tl_msgs' = Append(tl_msgs, r.message)
                /\ hist' = [ hist EXCEPT
                               !.tl_new_client[k] = @ + r.built,
                               !.starts[k] = @ + 1,
                               !.replies[k] = Append(@, r.message) ]
       ELSE UNCHANGED << tl_registry, tl_msgs, hist >>
    /\ tpc' = [ tpc EXCEPT ![k] = "loop_stop" ]
    /\ UNCHANGED << cfgVars, dpc, channel_id, sgn_msgs, ext_stop, stopVars,
                    fb_senders, fileVars, sgnVars, tl_local, lock, storeVars,
                    tip >>

\* if stop_rx.try_recv().is_ok() { break; } (lines 68-70); after the break
\* run returns (line 124) and drops its parameters.
TlCheckStop(k) ==
    /\ tpc[k] = "loop_stop"
    /\ IF StopSeen(TlRx(k))
       THEN /\ tpc' = [ tpc EXCEPT ![k] = "done" ]
            /\ TlDone(k)
            /\ hist' = [ hist EXCEPT !.late[k] = Ended(@) ]
       ELSE /\ tpc' = [ tpc EXCEPT ![k] = "loop_work" ]
            /\ UNCHANGED << stopVars, fb_senders, tl_cmd, hist >>
    /\ UNCHANGED << cfgVars, dispVars, fileVars, sgnVars, tl_registry,
                    tl_local, lock, storeVars, tip >>

\* if TransactionsLoaderState::Started != registry.state { continue; }
\* (lines 75-77).
TlSkips(registry) == registry.state # "Started"

\* Not Started: continue.
TlIdle(k) ==
    /\ tpc[k] = "loop_work"
    /\ TlSkips(tl_registry[k])
    /\ tpc' = [ tpc EXCEPT ![k] = "loop_cmd" ]
    /\ UNCHANGED << cfgVars, dispVars, stopVars, fb_senders, fileVars,
                    sgnVars, tl_registry, tl_local, tl_cmd, lock, storeVars,
                    tip, hist >>

\* The dequeue is entered without waiting for the mutex.
LockFree_unguarded == TRUE

\* let storage = guarded_storage.lock() (line 83).
LockFree == lock = NoHolder
TlLock(k) ==
    /\ tpc[k] = "loop_work"
    /\ ~TlSkips(tl_registry[k])
    /\ LockFree
    /\ lock' = k
    /\ tpc' = [ tpc EXCEPT ![k] = "select" ]
    /\ hist' = [ hist EXCEPT !.late[k] = Late(@, TlRx(k)) ]
    /\ UNCHANGED << cfgVars, dispVars, stopVars, fb_senders, fileVars,
                    sgnVars, tl_registry, tl_local, tl_cmd, storeVars, tip >>

\* storage.get_signature_from_queue() (line 85), first half: read the oldest
\* pending entry.  Nothing pending: Err, both locals None, the guard is
\* dropped at the end of the block (line 92) and the tick is over.
TlSelect(k) ==
    /\ tpc[k] = "select"
    /\ LET record_id == FirstPending(queue)
       IN  IF record_id = None
           THEN /\ tl_local' = [ tl_local EXCEPT ![k] = NoLocal ]
                /\ lock' = NoHolder
                /\ tpc' = [ tpc EXCEPT ![k] = "loop_cmd" ]
           ELSE /\ tl_local' = [ tl_local EXCEPT ![k] =
                                   [ record_id |-> record_id,
                                     signature |-> queue[record_id].signature ] ]
                /\ tpc' = [ tpc EXCEPT ![k] = "claim" ]
                /\ UNCHANGED lock
    /\ UNCHANGED << cfgVars, dispVars, stopVars, fb_senders, fileVars,
                    sgnVars, tl_registry, tl_cmd, storeVars, tip, hist >>

\* Second half: the entry is marked dequeued and returned (lines 86-87); the
\* guard is dropped at the end of the block (line 92).
TlClaim(k) ==
    /\ tpc[k] = "claim"
    /\ queue' = MarkDequeued(queue, tl_local[k].record_id)
    /\ lock' = NoHolder
    /\ tpc' = [ tpc EXCEPT ![k] = "fetch" ]
    /\ UNCHANGED << cfgVars, dispVars, stopVars, fb_senders, fileVars,
                    sgnVars, tl_registry, tl_local, tl_cmd, stored, tip, hist >>

\* The entry is marked whatever came back from the RPC.
AfterFetch_always(outcome, db) == "mark"

\* if let Ok(encoded_transaction) = transaction_info { if registry.db.is_some()
\* { store; mark } } (lines 103-119): where the tick goes after the fetch.
AfterFetch(outcome, db) == IF outcome = "ok" /\ db THEN "mark" ELSE "loop_cmd"

\* load_trqansaction_info and store_transaction (lines 94-110): an RPC error
\* ends the tick; the unwrap of a storage error panics.
FetchOutcomes == { "ok", "rpc_err", "store_err" }
TlFetch(k) ==
    /\ tpc[k] = "fetch"
    /\ \E outcome \in FetchOutcomes :
         /\ stored' = IF outcome = "ok" /\ tl_registry[k].db
                      THEN stored \cup { tl_local[k].signature } ELSE stored
         /\ IF outcome = "store_err" /\ tl_registry[k].db
            THEN /\ tpc' = [ tpc EXCEPT ![k] = "panicked" ]
                 /\ TlDone(k)
            ELSE /\ tpc' = [ tpc EXCEPT ![k] = AfterFetch(outcome, tl_registry[k].db) ]
                 /\ UNCHANGED << stopVars, fb_senders, tl_cmd >>
         /\ hist' = IF outcome = "rpc_err"
                    THEN [ hist EXCEPT !.fetch_failed =
                             @ \cup { tl_local[k].record_id } ]
                    ELSE IF outcome = "store_err" /\ tl_registry[k].db
                    THEN [ hist EXCEPT !.late[k] = Ended(@) ]
                    ELSE hist
    /\ UNCHANGED << cfgVars, dispVars, fileVars, sgnVars, tl_registry,
                    tl_local, lock, queue, tip >>

\* mark_signature_as_loaded(record_id.unwrap()) (lines 112-116).
TlMark(k) ==
    /\ tpc[k] = "mark"
    /\ queue' = MarkLoaded(queue, tl_local[k].record_id)
    /\ tpc' = [ tpc EXCEPT ![k] = "loop_cmd" ]
    /\ UNCHANGED << cfgVars, dispVars, stopVars, fb_senders, fileVars,
                    sgnVars, tl_registry, tl_local, tl_cmd, lock, stored, tip,
                    hist >>

\* ------------------------------------------------------------- environment
\* The outer process asks for a stop: a value is sent to dispatcher::run's
\* stop_rx.
ExternalStop ==
    /\ ~ext_stop
    /\ dpc \in { "setup_sgn", "start_sgn", "setup_pool", "start_tl", "drop_fb", "loop" }
    /\ ext_stop' = TRUE
    /\ UNCHANGED << cfgVars, dpc, channel_id, sgn_msgs, tl_msgs, stopVars,
                    fb_senders, fileVars, sgnVars, tlVars, storeVars, tip,
                    hist >>

\* A new transaction appears on the chain.  Only load_signatures_batch reads
\* the chain, so the growth since the last page is placed right before the
\* next one.
ChainGrows ==
    /\ tip < MaxTip
    /\ spc = "loop_work"
    /\ sgn_registry.state = "Started"
    /\ tip' = tip + 1
    /\ UNCHANGED << cfgVars, dispVars, stopVars, fb_senders, fileVars,
                    sgnVars, tlVars, storeVars, hist >>

\* dispatcher::run has returned and the program is run again: the checkpoint
\* file, the storage and the chain are what the run before left.
Restart ==
    /\ dpc = "done"
    /\ run_no < MaxRuns
    /\ run_no' = run_no + 1
    /\ ext_stop' = FALSE
    /\ dpc' = "setup_sgn"
    /\ channel_id' = 0
    /\ stop_subs' = { }
    /\ stop_pending' = { }
    /\ fb_senders' = { RunHandle }
    /\ sgn_cmd' = NewReceiver
    /\ tl_cmd' = [ k \in Loaders |-> NoReceiver ]
    /\ sgn_msgs' = << >>
    /\ tl_msgs' = << >>
    /\ spc' = "none"
    /\ sgn_registry' = NotStartedRegistry
    /\ saved_state' = EmptyState
    /\ tpc' = [ k \in Loaders |-> "none" ]
    /\ tl_registry' = [ k \in Loaders |-> NotStartedRegistry ]
    /\ tl_local' = [ k \in Loaders |-> NoLocal ]
    /\ lock' = NoHolder
    /\ hist' = [ FreshHistory EXCEPT !.prev_saved = hist.saved,
                                     !.prev_failed = hist.failed_page ]
    /\ UNCHANGED << number_of_transaction_loaders, fileVars, storeVars, tip >>

\* ------------------------------------------------------------- whole program
Dispatcher ==
    \/ DSpawnSgn \/ DStartSgn \/ DSpawnTl \/ DStartTl \/ DReturnPool
    \/ DDropFb \/ DLoop \/ DSendStop \/ DWait
SignaturesLoader ==
    \/ SlSubscribe \/ SlLoad \/ SlCommand \/ SlCheckStop \/ SlTick \/ SlSave
    \/ SlExit
TransactionsLoader(k) ==
    \/ TlSubscribe(k) \/ TlCommand(k) \/ TlCheckStop(k) \/ TlIdle(k)
    \/ TlLock(k) \/ TlSelect(k) \/ TlClaim(k) \/ TlFetch(k) \/ TlMark(k)

\* One run of the program, for every pool size up to MaxLoaders.
Next ==
    \/ Dispatcher
    \/ SignaturesLoader
    \/ \E k \in Pool : TransactionsLoader(k)
    \/ ExternalStop

Spec == Init /\ [][Next]_vars

\* Every task of the tokio runtime is polled again and again, and
\* parking_lot's mutex hands the lock to a waiting task eventually.
Fairness ==
    /\ WF_vars(Dispatcher)
    /\ WF_vars(SignaturesLoader)
    /\ \A k \in 0 .. MaxLoaders - 1 : WF_vars(TransactionsLoader(k))
    /\ \A k \in 0 .. MaxLoaders - 1 : SF_vars(TlLock(k))

FairSpec == Spec /\ Fairness

\* ------------------------------------------------------------- discovery alone
\* One run of the program with an empty pool
\* (number_of_transaction_loaders = 0) on a longer chain that grows.
InitDisc ==
    /\ number_of_transaction_loaders = 0
    /\ tip \in 0 .. MaxTip
    /\ run_no = 1
    /\ FreshProcess
    /\ file_exists = FALSE
    /\ file_content = << >>
    /\ queue = << >>
    /\ stored = { }
    /\ hist = FreshHistory

EmptyPoolDispatcher ==
    \/ DSpawnSgn \/ DStartSgn \/ DReturnPool \/ DDropFb \/ DLoop
    \/ DSendStop \/ DWait

NextDisc ==
    \/ EmptyPoolDispatcher
    \/ SignaturesLoader
    \/ ExternalStop
    \/ ChainGrows

SpecDisc == InitDisc /\ [][NextDisc]_vars

FairSpecDisc ==
    SpecDisc /\ WF_vars(EmptyPoolDispatcher) /\ WF_vars(SignaturesLoader)

\* ------------------------------------------------------------- run after run
\* The program with an empty pool, run again after each shutdown on a chain
\* that stays as it is: the checkpoint file and the queue pass from one run
\* to the next.
InitRerun ==
    /\ number_of_transaction_loaders = 0
    /\ tip \in 0 .. RerunTip
    /\ run_no = 1
    /\ FreshProcess
    /\ file_exists = FALSE
    /\ file_content = << >>
    /\ queue = << >>
    /\ stored = { }
    /\ hist = FreshHistory

NextRerun ==
    \/ EmptyPoolDispatcher
    \/ SignaturesLoader
    \/ ExternalStop
    \/ Restart

SpecRerun == InitRerun /\ [][NextRerun]_vars

\* ------------------------------------------------------------- the pool on a filled queue
\* The program when the dispatcher's setup is over and no pool task has been
\* polled yet: instance k subscribed right before Start { k } was sent, so
\* its receiver holds Start { k } .. Start { N - 1 }.  The queue holds what
\* an earlier run enqueued; that run left an empty checkpoint file behind
\* (its write failed), so the signatures loader of this run is gone.
PoolUnderTest == 0 .. number_of_transaction_loaders - 1
FilledQueue(n) == [ i \in 1 .. n |-> NewEntry(i) ]
StartsFrom(k) ==
    [ i \in 1 .. (number_of_transaction_loaders - k) |-> StartTl(k + i - 1) ]

InitPool ==
    /\ number_of_transaction_loaders \in 1 .. PoolSize
    /\ run_no = 1
    /\ ext_stop = FALSE
    /\ dpc = "loop"
    /\ channel_id = number_of_transaction_loaders
    /\ stop_subs = { }
    /\ stop_pending = { }
    /\ fb_senders = { TlHandle(k) : k \in PoolUnderTest }
    /\ sgn_cmd = NoReceiver
    /\ tl_cmd = [ k \in Loaders |->
                    IF k \in PoolUnderTest
                    THEN [ NewReceiver EXCEPT !.buf = StartsFrom(k) ]
                    ELSE NoReceiver ]
    /\ sgn_msgs = << >>
    /\ tl_msgs = << >>
    /\ spc = "panicked"
    /\ sgn_registry = NotStartedRegistry
    /\ saved_state = EmptyState
    /\ tpc = [ k \in Loaders |-> IF k \in PoolUnderTest THEN "spawned" ELSE "none" ]
    /\ tl_registry = [ k \in Loaders |-> NotStartedRegistry ]
    /\ tl_local = [ k \in Loaders |-> NoLocal ]
    /\ lock = NoHolder
    /\ file_exists = TRUE
    /\ file_content = << >>
    /\ \E n \in 0 .. MaxQueue : queue = FilledQueue(n) /\ tip = n
    /\ stored = { }
    /\ hist = FreshHistory

\* Every instance finds its Start at the head of its receiver, so no tick
\* of an instance that is not Started occurs here.
StartedFirst(k) ==
    \/ TlSubscribe(k) \/ TlCommand(k) \/ TlCheckStop(k) \/ TlLock(k)
    \/ TlSelect(k) \/ TlClaim(k) \/ TlFetch(k) \/ TlMark(k)

NextPool ==
    \/ DLoop \/ DSendStop \/ DWait
    \/ \E k \in Pool : StartedFirst(k)
    \/ ExternalStop

SpecPool == InitPool /\ [][NextPool]_vars

\* ------------------------------------------------------------- one worker under a driver
\* One worker (the signatures loader when the pool size is 0, else instance
\* 0 of a pool of one) as the dispatcher's setup leaves it, with a driver in
\* the dispatcher's place that sends any commands in any order.
InitCmd ==
    /\ number_of_transaction_loaders \in { 0, 1 }
    /\ run_no = 1
    /\ ext_stop = FALSE
    /\ dpc = "loop"
    /\ channel_id = number_of_transaction_loaders
    /\ stop_subs = { }
    /\ stop_pending = { }
    /\ fb_senders = IF number_of_transaction_loaders = 0
                    THEN { SgnHandle } ELSE { TlHandle(0) }
    /\ sgn_cmd = IF number_of_transaction_loaders = 0 THEN NewReceiver ELSE NoReceiver
    /\ tl_cmd = [ k \in Loaders |->
                    IF k < number_of_transaction_loaders THEN NewReceiver ELSE NoReceiver ]
    /\ sgn_msgs = << >>
    /\ tl_msgs = << >>
    /\ spc = IF number_of_transaction_loaders = 0 THEN "spawned" ELSE "none"
    /\ sgn_registry = NotStartedRegistry
    /\ saved_state = EmptyState
    /\ tpc = [ k \in Loaders |->
                 IF k < number_of_transaction_loaders THEN "spawned" ELSE "none" ]
    /\ tl_registry = [ k \in Loaders |-> NotStartedRegistry ]
    /\ tl_local = [ k \in Loaders |-> NoLocal ]
    /\ lock = NoHolder
    /\ file_exists = FALSE
    /\ file_content = << >>
    /\ tip \in 0 .. RunTip
    /\ queue = IF number_of_transaction_loaders = 0 THEN << >> ELSE FilledQueue(tip)
    /\ stored = { }
    /\ hist = FreshHistory

DriverCommands ==
    IF number_of_transaction_loaders = 0
    THEN { StartSgn, StopCmd, LoadCmd }
    ELSE { StartTl(0), StartTl(1), StopCmd }

DriverSend ==
    /\ dpc = "loop"
    /\ Len(hist.sent) < MaxCmds
    /\ \E command \in DriverCommands :
         /\ sgn_cmd' = Deliver(sgn_cmd, command)
         /\ tl_cmd' = [ k \in Loaders |-> Deliver(tl_cmd[k], command) ]
         /\ hist' = [ hist EXCEPT !.sent = Append(@, command) ]
    /\ UNCHANGED << cfgVars, dispVars, stopVars, fb_senders, fileVars, spc,
                    sgn_registry, saved_state, tpc, tl_registry, tl_local,
                    lock, storeVars, tip >>

NextCmd ==
    \/ DLoop \/ DSendStop \/ DWait
    \/ SignaturesLoader
    \/ \E k \in Pool : TransactionsLoader(k)
    \/ ExternalStop
    \/ DriverSend

SpecCmd == InitCmd /\ [][NextCmd]_vars

\* ------------------------------------------------------------- start-up of a large pool
\* The program from its start with a pool of CmdCapacity instances or more,
\* followed up to the dispatcher's loop.  Of the tasks only instance 0 is
\* polled here: it subscribed first, so its receiver is the one that gets
\* every Start command, and no other task touches its receiver or registry.
\* The queue is empty.
InitLag ==
    /\ number_of_transaction_loaders \in CmdCapacity .. LagPool
    /\ tip = 0
    /\ run_no = 1
    /\ FreshProcess
    /\ file_exists = FALSE
    /\ file_content = << >>
    /\ queue = << >>
    /\ stored = { }
    /\ hist = FreshHistory

StartUp ==
    \/ DSpawnSgn \/ DStartSgn \/ DSpawnTl \/ DStartTl \/ DReturnPool
    \/ DDropFb \/ DLoop
FirstInstance ==
    \/ TlSubscribe(0) \/ TlCommand(0) \/ TlCheckStop(0) \/ TlIdle(0)
    \/ TlLock(0) \/ TlSelect(0)

NextLag == StartUp \/ FirstInstance

SpecLag == InitLag /\ [][NextLag]_vars

\* The dispatcher runs on, and the task of instance 0 is polled again and
\* again.
FairSpecLag == SpecLag /\ WF_vars(StartUp) /\ WF_vars(FirstInstance)

\* ------------------------------------------------------------- shutdown
SgnInLoop == spc \in { "loop_cmd", "loop_stop", "loop_work" }
TlInLoop(k) ==
    tpc[k] \in { "loop_cmd", "loop_stop", "loop_work", "select", "claim", "fetch", "mark" }
SgnExited == spc \in { "done", "panicked" }
TlExited(k) == tpc[k] \in { "done", "panicked" }
AllExited == SgnExited /\ \A k \in Pool : TlExited(k)
StopBroadcast == dpc \in { "wait", "done" }

\* C1: when dispatcher::run has come back from its wait on the
\* shutdown-barrier channel, no worker (the signatures loader and each of the
\* N transactions loaders, for every N in 0 .. MaxLoaders) is inside its loop
\* or has yet to enter it: each has returned or panicked.
BarrierSafety ==
    dpc = "done" =>
        /\ ~SgnInLoop /\ SgnExited
        /\ \A k \in Pool : ~TlInLoop(k) /\ TlExited(k)

\* A shutdown of a pool of at least one instance in which every worker was
\* Started, saw the stop and returned.
BarrierSafetyWitness ==
    /\ dpc = "done"
    /\ number_of_transaction_loaders >= 1
    /\ spc = "done" /\ sgn_registry.state = "Started"
    /\ \A k \in Pool : tpc[k] = "done" /\ tl_registry[k].state = "Started"

\* C2: after the setup neither dispatcher::run nor a setup helper holds a
\* sender of the shutdown-barrier channel, and whenever every spawned worker
\* has exited no sender is left at all, so the dispatcher's recv() on the
\* barrier returns end-of-stream (also when the pool size is 0).
BarrierNoHang ==
    /\ dpc \in { "loop", "send_stop", "wait", "done" }
         => RunHandle \notin fb_senders /\ HelperHandle \notin fb_senders
    /\ dpc \in { "loop", "send_stop", "wait" } /\ AllExited => BarrierOpen

\* The dispatcher waits on the barrier of an empty pool whose only worker,
\* the signatures loader, has exited.
BarrierNoHangWitness ==
    /\ dpc = "wait"
    /\ number_of_transaction_loaders = 0
    /\ AllExited

\* C3: once the dispatcher has broadcast on the stop channel, every spawned
\* worker eventually exits and dispatcher::run eventually returns.
StopReachesAll == StopBroadcast ~> (AllExited /\ dpc = "done")

\* ------------------------------------------------------------- the pool's queue
Holding(k) == tpc[k] \in { "fetch", "mark" }

\* C4: a record of the queue is handed out by the lock-guarded dequeue at
\* most once, to one instance; two instances never work on the same
\* record_id; a record marked loaded was handed out; and no record is lost:
\* the queue keeps every enqueued record, each still pending or handed out
\* exactly once.
AtMostOneClaim ==
    /\ Len(queue) = tip
    /\ \A i \in 1 .. Len(queue) :
         /\ queue[i].signature = i
         /\ queue[i].handed = IF queue[i].dequeued THEN 1 ELSE 0
         /\ queue[i].loaded => queue[i].handed = 1
    /\ \A j, k \in Pool :
         Holding(j) /\ Holding(k) /\ j # k
            => tl_local[j].record_id # tl_local[k].record_id
    /\ \A k \in Pool : Holding(k) => queue[tl_local[k].record_id].handed = 1

\* Two Started instances at the dequeue together: one has just been handed
\* the record, the other holds the lock and reads the queue.
AtMostOneClaimWitness ==
    \E j, k \in Pool :
        /\ j # k
        /\ tpc[j] = "fetch"
        /\ tpc[k] = "select"
        /\ queue[tl_local[j].record_id].handed = 1

\* ------------------------------------------------------------- start
StartedThenAlready(replies) ==
    \A i \in 1 .. Len(replies) :
        replies[i] = IF i = 1 THEN "Started" ELSE "AlreadyStarted"

\* C5: a worker that has processed Start commands addressed to it has
\* answered the first with Started and every later one with AlreadyStarted,
\* is Started, and has built its RPC client and storage handle once.
IdempotentStart ==
    /\ Len(hist.sgn_replies) = hist.sgn_starts
    /\ StartedThenAlready(hist.sgn_replies)
    /\ hist.new_client = (IF hist.sgn_starts > 0 THEN 1 ELSE 0)
    /\ hist.sgn_starts > 0 =>
         sgn_registry = [ state |-> "Started", rpc_client |-> TRUE, db |-> TRUE ]
    /\ \A k \in Loaders :
         /\ Len(hist.replies[k]) = hist.starts[k]
         /\ StartedThenAlready(hist.replies[k])
         /\ hist.tl_new_client[k] = (IF hist.starts[k] > 0 THEN 1 ELSE 0)
         /\ hist.starts[k] > 0 =>
              tl_registry[k] = [ state |-> "Started", rpc_client |-> TRUE, db |-> TRUE ]

\* The signatures loader has processed Start twice.
IdempotentStartWitness ==
    /\ hist.sgn_starts = 2
    /\ hist.sgn_replies = << "Started", "AlreadyStarted" >>
    /\ hist.new_client = 1

\* ------------------------------------------------------------- checkpoint file
\* C6: load_state that meets a missing or a corrupt (unparseable) checkpoint
\* file returns the all-None checkpoint and does not abort the signatures
\* loader.
ColdStart ==
    hist.load_met \in { "missing", "corrupt" }
        => /\ hist.loaded = [ ok |-> TRUE, state |-> EmptyState ]
           /\ ~(spc = "panicked" /\ hist.exit = "none")

Persisted(state) ==
    file_exists /\ FromJsonOk(file_content) /\ FromJson(file_content) = state
SgnReleased == spc # "none" /\ SgnHandle \notin fb_senders

\* C7: when the signatures loader has left its loop and released its
\* shutdown-barrier sender, save_state has been called exactly once and has
\* written the checkpoint; so when the dispatcher's barrier wait has
\* returned, the file holds the loader's final in-memory checkpoint.
CheckpointBeforeShutdown ==
    /\ hist.exit # "none" /\ SgnReleased
         => hist.save_calls = 1 /\ hist.saved.ok /\ Persisted(saved_state)
    /\ hist.exit # "none" /\ dpc = "done" => Persisted(saved_state)

\* C8: the file a successful save_state wrote parses to the checkpoint that
\* was saved; the checkpoint a run loads is the one the run before saved;
\* and a run whose loader was never Started saves what it loaded.
CheckpointRoundTrip ==
    /\ hist.saved.ok => Persisted(hist.saved.state)
    /\ hist.prev_saved.ok /\ hist.load_met # "none"
         => hist.loaded = [ ok |-> TRUE, state |-> hist.prev_saved.state ]
    /\ hist.saved.ok /\ sgn_registry.state = "NotStarted"
         => hist.saved.state = hist.loaded.state

\* A second run loaded a checkpoint with every cursor shape in it (a sweep
\* was interrupted: newest_transaction and before set), was never Started
\* and saved it again.
CheckpointRoundTripWitness ==
    /\ run_no = 2
    /\ hist.prev_saved.ok
    /\ hist.prev_saved.state.before # None
    /\ hist.prev_saved.state.newest_transaction # None
    /\ hist.loaded.ok
    /\ hist.saved.ok
    /\ sgn_registry.state = "NotStarted"
    /\ spc = "done"

\* ------------------------------------------------------------- three signatures
\* The scenario: a first run from the all-None checkpoint on a chain of
\* three signatures, S1 = 3 the newest, that does not grow; the first page
\* is S1, S2, S3 and every later page is empty.
ScenarioPage == << 3, 2, 1 >>
S1 == ScenarioPage[1]
ThreeSignatures ==
    /\ run_no = 1
    /\ tip = S1
    /\ hist.loaded = [ ok |-> TRUE, state |-> EmptyState ]
    /\ Len(hist.pages) >= 1
    /\ hist.pages[1].page = ScenarioPage
Sealed(sig) == [ newest_transaction |-> None, before |-> None, until |-> sig ]

Ticking == SgnInLoop /\ sgn_registry.state = "Started"

\* C10: while the signatures loader keeps ticking, a backward sweep ends:
\* from a state with `before` set it reaches one with `before` None (or it
\* has left its loop).
SweepEnds ==
    (Ticking /\ saved_state.before # None)
        ~> (saved_state.before = None \/ ~Ticking)

\* The loader is about to request the third page of a backward sweep.
SweepEndsWitness ==
    /\ Ticking
    /\ spc = "loop_work"
    /\ saved_state.before # None
    /\ saved_state.before <= tip - 2 * BatchLen + 1

\* ------------------------------------------------------------- work and state
TlWorkSteps == { "select", "claim", "fetch", "mark" }
TlWorking(k) == tpc[k] \in TlWorkSteps
SgnStep == spc' # spc
TlStep(k) == tpc'[k] # tpc[k]
Ready(registry) == registry.state = "Started" /\ registry.rpc_client

\* C11: a step of a worker that requests a page, moves the checkpoint
\* cursors, enqueues, dequeues, fetches, stores or marks is taken by a worker
\* that is Started and has built its RPC client; a step of a worker that is
\* in its loop and not Started changes neither the checkpoint nor the queue
\* nor the stored transactions.
WorkOnlyWhileStarted ==
    [][ /\ SgnStep /\ SgnInLoop
             /\ (saved_state' # saved_state \/ queue' # queue \/ hist'.pages # hist.pages)
           => Ready(sgn_registry)
        /\ SgnStep /\ SgnInLoop /\ ~Ready(sgn_registry)
           => /\ saved_state' = saved_state
              /\ queue' = queue
              /\ stored' = stored
              /\ spc' \in { "loop_cmd", "loop_stop", "loop_work", "save" }
        /\ \A k \in Loaders :
             /\ TlWorking(k) \/ tpc'[k] \in TlWorkSteps => Ready(tl_registry[k])
             /\ TlStep(k) /\ TlInLoop(k) /\ ~Ready(tl_registry[k])
                => /\ queue' = queue
                   /\ stored' = stored
                   /\ tl_local' = tl_local
                   /\ lock' = lock ]_vars

\* A signatures loader that was sent two commands, neither of them Start, has
\* taken both from its receiver, a tick on a chain with a signature in
\* between, and is NotStarted with the checkpoint and the queue untouched.
WorkOnlyWhileStartedWitness ==
    /\ number_of_transaction_loaders = 0
    /\ hist.sent = << StopCmd, LoadCmd >>
    /\ sgn_cmd.buf = << >>
    /\ spc = "loop_stop"
    /\ sgn_registry.state = "NotStarted"
    /\ tip >= 1
    /\ queue = << >>
    /\ saved_state = EmptyState

\* ------------------------------------------------------------- the cursor update
\* A step of the signatures loader that is a tick of a Started loader, and
\* the page that tick receives.
Tick == spc = "loop_work" /\ SgnStep /\ Ready(sgn_registry)
Page == load_signatures_batch(saved_state.before, saved_state.until)
Known ==
    IF saved_state.newest_transaction # None THEN saved_state.newest_transaction
    ELSE IF Page # << >> THEN Page[1] ELSE None

\* C12: a tick on a page shorter than the batch constant sets until to
\* newest_transaction when that is known (as it was, or else the first
\* signature of a non-empty page) and leaves until unchanged otherwise, and
\* resets before and newest_transaction to None; a tick on a full page sets
\* before to the last signature of the page, leaves until unchanged, and sets
\* newest_transaction to the first signature of the page only when it was
\* unset.
TickCursors ==
    [][ Tick =>
          IF Len(Page) < BatchLen
          THEN /\ saved_state'.until = (IF Known # None THEN Known ELSE saved_state.until)
               /\ saved_state'.before = None
               /\ saved_state'.newest_transaction = None
          ELSE /\ saved_state'.before = Page[Len(Page)]
               /\ saved_state'.until = saved_state.until
               /\ saved_state'.newest_transaction =
                    (IF saved_state.newest_transaction = None
                     THEN Page[1] ELSE saved_state.newest_transaction) ]_vars

\* After a tick on a full page of a later sweep: until was sealed by an
\* earlier sweep, newest_transaction anchors this one and before has moved a
\* batch below it.
TickCursorsWitness ==
    /\ spc = "loop_cmd"
    /\ saved_state.until # None
    /\ saved_state.newest_transaction # None
    /\ saved_state.before = saved_state.newest_transaction - BatchLen + 1
    /\ saved_state.before > saved_state.until

\* ------------------------------------------------------------- sealed regions
EnqueuedOnce ==
    \A i, j \in 1 .. Len(queue) : queue[i].signature = queue[j].signature => i = j

\* C13: within one run the sealed cursor until never moves to an older
\* signature, and the queue never holds a signature twice, whatever the
\* ticks and however the chain grows at its tip during a backward sweep.
NoRescan ==
    /\ [] EnqueuedOnce
    /\ [][ SgnStep /\ SgnInLoop => saved_state'.until >= saved_state.until ]_vars

\* A later backward sweep is under way (until sealed by an earlier one,
\* before set), more than a batch is enqueued, and the chain has grown above
\* the sweep's anchor since the sweep began.
NoRescanWitness ==
    /\ Ticking
    /\ saved_state.until # None
    /\ saved_state.before # None
    /\ saved_state.newest_transaction # None
    /\ tip > saved_state.newest_transaction
    /\ Len(queue) > BatchLen

\* ------------------------------------------------------------- command filtering
TlTakesCommand(k) == tpc[k] = "loop_cmd" /\ TlStep(k)
OwnStart(k) == TryRecvOk(tl_cmd[k]) /\ TryRecvValue(tl_cmd[k]) = StartTl(k)

\* C15: a transactions loader that takes a Start with its own channel_id
\* from its receiver is Started with its clients built afterwards and sends
\* one message, Started or AlreadyStarted; when it takes a Start addressed
\* to another instance, a Stop, or nothing, its registry stays as it is, no
\* client is built and no message is sent.  No other step of the loader
\* changes the registry or sends a message.
CommandFiltering ==
    [][ \A k \in Pool :
          /\ TlTakesCommand(k) /\ OwnStart(k)
             => /\ Ready(tl_registry'[k]) /\ tl_registry'[k].db
                /\ \E m \in { "Started", "AlreadyStarted" } : tl_msgs' = Append(tl_msgs, m)
          /\ TlStep(k) /\ ~(TlTakesCommand(k) /\ OwnStart(k))
             => /\ tl_registry' = tl_registry
                /\ tl_msgs' = tl_msgs
                /\ hist'.tl_new_client = hist.tl_new_client
                /\ hist'.replies = hist.replies ]_vars

\* Instance 0 was sent a Start for instance 1 and a Stop, has taken both from
\* its receiver and is NotStarted, without clients, having sent nothing.
CommandFilteringWitness ==
    /\ number_of_transaction_loaders = 1
    /\ hist.sent = << StartTl(1), StopCmd >>
    /\ tl_cmd[0].buf = << >>
    /\ tpc[0] = "loop_stop"
    /\ tl_registry[0] = NotStartedRegistry
    /\ hist.replies[0] = << >>
    /\ tl_msgs = << >>

\* ------------------------------------------------------------- store, then mark
\* C16: every queue entry marked loaded has its transaction body stored, and
\* the entry of an instance whose store_transaction failed (the instance
\* panicked there) is not marked loaded.
StoreBeforeMark ==
    /\ \A i \in 1 .. Len(queue) : queue[i].loaded => queue[i].signature \in stored
    /\ \A k \in Pool :
         tpc[k] = "panicked" => ~queue[tl_local[k].record_id].loaded
    /\ \A k \in Pool :
         tpc[k] = "mark" => tl_local[k].signature \in stored

\* An instance has fetched, stored and marked an entry and is back at the
\* head of its loop.
StoreBeforeMarkWitness ==
    \E k \in Pool :
        /\ tpc[k] = "loop_cmd"
        /\ tl_local[k].record_id # None
        /\ queue[tl_local[k].record_id].loaded
        /\ tl_local[k].signature \in stored

\* ------------------------------------------------------------- fetch failure
FetchFailed == hist.fetch_failed

\* C17: an entry whose RPC fetch failed stays dequeued, is not marked
\* loaded, has no transaction stored and has been handed out once, never
\* again; the step in which the fetch fails leaves queue and storage as they
\* are and takes the instance back to the head of its loop.
FetchFailureLeavesClaimed ==
    /\ [] \A i \in FetchFailed :
             /\ queue[i].dequeued
             /\ ~queue[i].loaded
             /\ queue[i].signature \notin stored
             /\ queue[i].handed = 1
    /\ [][ \A k \in Pool :
             hist'.fetch_failed # hist.fetch_failed /\ TlStep(k)
                => queue' = queue /\ stored' = stored /\ tpc'[k] = "loop_cmd" ]_vars

\* After a failed fetch the instance is in a later tick, holds the lock and
\* finds the queue without a pending entry; the failed entry is as it was
\* left.
FetchFailureLeavesClaimedWitness ==
    \E k \in Pool :
        /\ tl_local[k].record_id \in FetchFailed
        /\ tpc[k] = "select"
        /\ FirstPending(queue) = None
        /\ queue[tl_local[k].record_id].dequeued
        /\ ~queue[tl_local[k].record_id].loaded

\* ------------------------------------------------------------- every instance started
\* C14: for every pool size, an instance that has been spawned eventually
\* receives its own Start and enters Started (stated for instance 0, the
\* instance this specification polls).
EveryInstanceStarted ==
    (tpc[0] = "spawned") ~> (tl_registry[0].state = "Started")

\* ------------------------------------------------------------- enqueue failure
\* A checkpoint covers a signature when a loader that starts from it will
\* still request it: the signature is newer than until, and it lies below
\* before (the rest of the interrupted sweep) or above newest_transaction
\* (the next sweep), or no sweep is interrupted.
Covers(state, sig) ==
    /\ sig > state.until
    /\ \/ state.before = None
       \/ sig < state.before
       \/ sig > state.newest_transaction
CoversPage(state, signatures) ==
    \A i \in 1 .. Len(signatures) : Covers(state, signatures[i])

\* C18: when the enqueue of a page has failed, the checkpoint in the file
\* (the all-None checkpoint when there is no file) still covers every
\* signature of that page, and so does the checkpoint the next run loads.
EnqueueFailureKeepsCheckpoint ==
    /\ hist.failed_page # << >> /\ (file_exists => FromJsonOk(file_content))
         => CoversPage(load_state(file_exists, file_content), hist.failed_page)
    /\ hist.prev_failed # << >> /\ hist.loaded.ok
         => CoversPage(hist.loaded.state, hist.prev_failed)

\* A second run went on with the sweep the first run's checkpoint had left
\* open, and the enqueue of its page failed; the file still holds the first
\* run's checkpoint.
EnqueueFailureKeepsCheckpointWitness ==
    /\ run_no = 2
    /\ hist.prev_saved.ok
    /\ hist.prev_saved.state.before # None
    /\ hist.failed_page # << >>
    /\ spc = "panicked"
    /\ Persisted(hist.prev_saved.state)

SweepCursors(state) == (state.newest_transaction = None) <=> (state.before = None)

\* C20: in a run whose loaded checkpoint has newest_transaction and before
\* set together or not at all, the checkpoint in memory has them so after
\* every tick, and so has every checkpoint that is saved at shutdown and
\* every checkpoint a later run loads.
SweepCursorInvariant ==
    /\ hist.loaded.ok /\ SweepCursors(hist.loaded.state) => SweepCursors(saved_state)
    /\ hist.saved.ok => SweepCursors(hist.saved.state)
    /\ Persisted(hist.saved.state) => SweepCursors(FromJson(file_content))
    /\ hist.loaded.ok => SweepCursors(hist.loaded.state)

\* A second run loaded the checkpoint of an interrupted sweep (both cursors
\* set), finished the sweep, which cleared both and sealed until at the
\* anchor, and saved that.
SweepCursorInvariantWitness ==
    /\ run_no = 2
    /\ hist.loaded.ok
    /\ hist.loaded.state.newest_transaction # None
    /\ hist.loaded.state.before # None
    /\ hist.saved.ok
    /\ hist.saved.state = Sealed(hist.loaded.state.newest_transaction)

====
